---- MODULE Spec2Model ----
(***************************************************************************)
(* RiemannZeroSearch: the scan -> filter -> verify pipeline.               *)
(*                                                                         *)
(*   zeta_loop.py       the Orchestrator: main loop, key handling,         *)
(*                      run_command, update_stats, the Esc callback        *)
(*   zeta_ml_finder.py  the scan and the Anomaly Filter (a child process)  *)
(*   zeta_crunch.py     the Verifier (a child process with a worker pool)  *)
(*   zeta_setup.py      run_test: the finder started with --test           *)
(*                                                                         *)
(* Units.  TLC integers are 32 bit, so real numbers are scaled:            *)
(*   sigma      (sigma - 0.5) * 1e10     0.55 is 500000000, 1e-10 is 1     *)
(*   t          t / 1e6                  3.1e12 is 3100000, 1e7 is 10      *)
(*   |zeta|     |zeta| * 1e11            1e-5 is 1000000, 1e-10 is 10      *)
(***************************************************************************)
EXTENDS Integers, Sequences, FiniteSets, TLC

\* ------------------------------------------------------------- bounds
MaxRows == 2            \* rows of one scan that the model writes out
MaxTotalAnoms == 2      \* anomalies handed to the Verifier in one run, all cycles together
MaxCount == 3           \* largest sample count of the scan taken batch by batch
MaxBatch == 2           \* largest batch size of that scan
MaxOutput == 3          \* most lines a child writes to its stdout, and to its stderr
PipeCapacity == 2       \* lines an operating-system pipe holds before a write blocks
MaxPoolRows == 7        \* most rows of the hand-off file when the pool is followed
MaxPointsUp == 1        \* how far F1 takes num_points above its default (steps of
                        \* 1000) when the key handling is followed on its own
MaxKeySteps == 1        \* how far F1/F2/F6 take num_points (steps of 100 above its
                        \* default) and N_approximation (steps of 1000) together

\* --------------------------------------------------- program constants
LOW_PRECISION == 20
HIGH_PRECISION == 50
POOL_MAX == 6
REJECT_BOUND == 1000000     \* 1e-5: abs(zeta_initial) > 1e-5
CONFIRM_TOL == 10           \* 1e-10: abs(zeta_val) < 1e-10
SIGMA_TOL == 1              \* 1e-10: abs(sigma_zero - 0.5) > 1e-10
FAKE_SIGMA == 500000000     \* 0.55
FAKE_T == 3100000           \* 3.1e12
FAKE_ZETA == 100000         \* 1e-6
FAKE_SIGMA_WINDOW == 10000000   \* 1e-3
FAKE_T_WINDOW == 10         \* 1e7
THRESHOLD == 1000000        \* find_anomalies threshold 1e-5
NUM_POINTS_DEFAULT == 10000
T_MIN_DEFAULT == 3000175    \* 3.0001753329e12
T_MAX_DEFAULT == 1000000000 \* 1e15
INCREMENT_DEFAULT == 1000
INCREMENT_SMALL == 100
N_DEFAULT == 1000
N_STEP == 1000
SIGMA_MIN_DEFAULT == 51     \* 0.51, in hundredths as every sigma range bound
SIGMA_MAX_DEFAULT == 99     \* 0.99
TEST_SIGMA_MAX == 52        \* run_test: --sigma_max 0.52
TEST_NUM_POINTS == 100      \* run_test: --num_points 100
T_TEST_MIN == 100           \* run_test: --t_min 100 (in units of 1)
T_TEST_MAX == 200           \* run_test: --t_max 200 (in units of 1)


Abs(x) == IF x < 0 THEN -x ELSE x
Min(a, b) == IF a < b THEN a ELSE b

VARIABLES
    \* zeta_loop.py globals (the SearchState and the cumulative counters)
    should_exit, paused, num_points, t_min, t_max, point_increment,
    N_approximation, total_anomalies, total_counterexamples,
    \* the Orchestrator's position in main() and run_command's results
    pc, finder_out, cruncher_out,
    \* anomalies.csv, verified_zeros.log, the verified_zeros table,
    \* counterexamples.csv, the searched_regions table
    anomalies_csv, verified_log, db_verified, counterexamples_csv,
    searched_regions,
    \* the finder child process; the cruncher child process and its pool tasks
    finder, cruncher, tasks,
    \* observation of the current cycle (no program state)
    obs

vars == <<should_exit, paused, num_points, t_min, t_max, point_increment,
          N_approximation, total_anomalies, total_counterexamples,
          pc, finder_out, cruncher_out,
          anomalies_csv, verified_log, db_verified, counterexamples_csv,
          searched_regions, finder, cruncher, tasks, obs>>

searchState == <<paused, num_points, t_min, t_max, point_increment, N_approximation>>
counters == <<total_anomalies, total_counterexamples>>
files == <<anomalies_csv, verified_log, db_verified, counterexamples_csv,
           searched_regions>>
children == <<finder, cruncher, tasks>>

\* ------------------------------------------------------------ values
\* A VerificationResult as verify_zero returns it: None, or the tuple
\* (sigma_zero, t_zero, zeta_val, is_counterexample).
NoneResult == [some |-> FALSE, sigma |-> 0, t |-> 0, zeta |-> 0,
               is_counterexample |-> FALSE]
Tuple(s, t, z, c) == [some |-> TRUE, sigma |-> s, t |-> t, zeta |-> z,
                      is_counterexample |-> c]

\* The rows [sigma, t, |zeta|] a scan over the given t range can return: one
\* below the threshold and one at it.  The default t range holds the synthetic
\* test point (the row lies on the edge of its window), run_test's does not.
ScanRowVals(tlo, thi) ==
    IF tlo <= FAKE_T /\ FAKE_T <= thi
    THEN { [sigma |-> FAKE_SIGMA + FAKE_SIGMA_WINDOW, t |-> FAKE_T, z |-> THRESHOLD - 1],
           [sigma |-> 100000000, t |-> FAKE_T, z |-> THRESHOLD] }
    ELSE { [sigma |-> 100000000, t |-> tlo, z |-> THRESHOLD - 1],
           [sigma |-> 100000000, t |-> thi, z |-> THRESHOLD] }

\* |zeta(s)| as the pre-filter can compute it, |zeta(zero)| and the refined
\* sigma as findroot can return them: both sides of every comparison.
PreMags == {REJECT_BOUND, REJECT_BOUND + 1}
ConfMags == {CONFIRM_TOL - 1, CONFIRM_TOL}
SigmaZeroVals == {0 - (SIGMA_TOL + 1), 0, SIGMA_TOL}

SeqsUpTo(S, n) == UNION { [1..k -> S] : k \in 0..n }

\* What is observed of one cycle; escInFlight and handed last for the run.
NewCycleObs(o, anoms, cexs) ==
    [anomBefore |-> anoms, cexBefore |-> cexs, statsDone |-> FALSE,
     scanAnoms |-> 0 - 1, verifierRan |-> FALSE, nTasks |-> 0,
     rejected |-> 0, exact |-> 0, noneResults |-> 0 - 1, onLineResults |-> 0 - 1,
     cexReturned |-> 0, cexAlerted |-> 0, cexLogged |-> 0, cexStored |-> 0,
     cexWriteFailed |-> 0,
     processed |-> 0, finished |-> FALSE, numericFailures |-> 0,
     logBefore |-> Len(verified_log), dbBefore |-> Len(db_verified),
     escInFlight |-> o.escInFlight, startedAfterEsc |-> o.escInFlight,
     handed |-> o.handed]

\* ------------------------------------------------------ zeta_ml_finder
AtMostThreshold(row) == row.z <= THRESHOLD

\* find_anomalies line 62: scan_data[scan_data[:, 2] < threshold]
BelowThreshold(row) == row.z < THRESHOLD
FilterRows(rows) == SelectSeq(rows, BelowThreshold)

\* find_anomalies lines 66-69: the injected fake anomaly
fake_anomaly == [sigma |-> FAKE_SIGMA, t |-> FAKE_T, z |-> FAKE_ZETA]
Inject(anoms, test_mode) == IF test_mode THEN Append(anoms, fake_anomaly) ELSE anoms

Line(text, n) == [text |-> text, n |-> n]

\* zeta_approx_gpu_batch line 13: N=1000, the only value line 40 calls it with
N_BATCH_DEFAULT == 1000

IdleFinder == [pc |-> "idle", test |-> FALSE, sigma_min |-> 0, sigma_max |-> 0,
               t_min |-> 0, t_max |-> 0, N |-> 0,
               num_points |-> 0, count |-> 0, rows |-> <<>>, out |-> <<>>]

\* subprocess.Popen of "python zeta_ml_finder.py --t_min .. --t_max ..
\* --num_points .. [--test]"; the finder has no argument for the series
\* length, N is what its scan calls the batch evaluator with.
LaunchFinder(tlo, thi, n, test) ==
    [pc |-> "scan", test |-> test,
     sigma_min |-> SIGMA_MIN_DEFAULT, sigma_max |-> SIGMA_MAX_DEFAULT,
     t_min |-> tlo, t_max |-> thi, N |-> N_BATCH_DEFAULT,
     num_points |-> n, count |-> 0, rows |-> <<>>,
     out |-> <<Line("Scanning Zeta function space...", 0)>>]

\* log_searched_region: the row inserted into searched_regions (the table is
\* kept as the set of its distinct rows, without the timestamp).
Region(f) == [sigma_start |-> f.sigma_min, sigma_end |-> f.sigma_max,
              t_start |-> f.t_min, t_end |-> f.t_max]

\* zeta_scan_logarithmic: the scan returns num_points rows; the model writes
\* out at most MaxRows of them, the others lie at or above the threshold.
\* The scan ends with log_searched_region.
FinderScan ==
    /\ finder.pc = "scan"
    /\ \E rows \in SeqsUpTo(ScanRowVals(finder.t_min, finder.t_max),
                            Min(MaxRows, finder.num_points)) :
          /\ obs.handed + Len(Inject(FilterRows(rows), finder.test)) <= MaxTotalAnoms
          /\ finder' = [finder EXCEPT !.pc = "filter", !.rows = rows,
                                      !.count = finder.num_points,
                                      !.out = Append(@, Line("Detecting anomalies...", 0))]
    /\ searched_regions' = searched_regions \cup {Region(finder)}
    /\ UNCHANGED <<should_exit, searchState, counters, pc, finder_out,
                   cruncher_out, anomalies_csv, verified_log, db_verified,
                   counterexamples_csv, cruncher, tasks, obs>>

\* find_anomalies and the rest of __main__; the process then exits and its
\* memory is gone.  An empty scan result is a one-dimensional array, and
\* scan_data[:, 2] raises IndexError on it.
FinderFilter ==
    /\ finder.pc = "filter"
    /\ IF finder.count = 0
       THEN /\ finder' = [finder EXCEPT !.pc = "crashed"]
            /\ UNCHANGED <<anomalies_csv, obs>>
       ELSE
       LET selected == FilterRows(finder.rows)
           anomalies == Inject(selected, finder.test)
           printed == <<Line("Total scanned points:", finder.count),
                        Line("Total anomalies detected:", Len(selected))>>
                      \o (IF finder.test
                          THEN <<Line("Test mode: Injected fake anomaly", 0)>>
                          ELSE <<>>)
                      \o <<Line("anomalies detected!", Len(anomalies))>>
       IN /\ finder' = [finder EXCEPT !.pc = "exited", !.rows = <<>>,
                                      !.out = @ \o printed]
          /\ anomalies_csv' = IF Len(anomalies) > 0
                              THEN [exists |-> TRUE, rows |-> anomalies]
                              ELSE anomalies_csv
          /\ obs' = [obs EXCEPT !.scanAnoms = Len(anomalies)]
    /\ UNCHANGED <<should_exit, searchState, counters, pc, finder_out,
                   cruncher_out, verified_log, db_verified, counterexamples_csv,
                   searched_regions, cruncher, tasks>>

\* --------------------------------------------------------- zeta_crunch
TestMatchWrongCentre(sigma, t, is_test) ==
    is_test /\ Abs(sigma) < FAKE_SIGMA_WINDOW /\ Abs(t - FAKE_T) < FAKE_T_WINDOW

\* verify_zero line 37
TestMatch(sigma, t, is_test) ==
    is_test /\ Abs(sigma - FAKE_SIGMA) < FAKE_SIGMA_WINDOW
            /\ Abs(t - FAKE_T) < FAKE_T_WINDOW

PrefilterRejectsLoose(zeta_initial) == zeta_initial > REJECT_BOUND * 10

\* verify_zero line 44
PrefilterRejects(zeta_initial) == zeta_initial > REJECT_BOUND

\* verify_zero lines 55-62
Confirmed(zeta_val) == zeta_val < CONFIRM_TOL
OffLineNoAbs(sigma_zero) == sigma_zero > SIGMA_TOL
OffLine(sigma_zero) == Abs(sigma_zero) > SIGMA_TOL
Classify(sigma_zero, t_zero, zeta_val) ==
    IF Confirmed(zeta_val)
    THEN Tuple(sigma_zero, t_zero, zeta_val, OffLine(sigma_zero))
    ELSE NoneResult

\* zeta_eval line 23: the default of the precision parameter is the value
\* mp.dps had when the def statement ran, after line 16.
DEFAULT_PRECISION == HIGH_PRECISION

\* zeta_eval line 25: mp.dps = precision, before mp.zeta(s) is called
zeta_eval_dps(precision) == precision

\* search_zeros line 118: one argument tuple per row; the zeta_abs column is
\* not passed on.  zeta_initial and zeta_val are verify_zero's locals (-1: not
\* computed).  dps is the worker's mp.dps (50 after the import, line 16);
\* pre_dps and ref_dps are its value when mp.zeta ran for the pre-filter and
\* for the confirmation (0: not evaluated).
NewTask(row, test_mode) ==
    [sigma |-> row.sigma, t |-> row.t, is_test |-> test_mode, pc |-> "queued",
     matched |-> FALSE, zeta_initial |-> 0 - 1, refined |-> FALSE,
     zeta_val |-> 0 - 1, result |-> NoneResult, starts |-> 0,
     dps |-> HIGH_PRECISION, pre_dps |-> 0, ref_dps |-> 0]

TaskArgsSkipFirst(anomalies, test_mode) ==
    [i \in 1..(Len(anomalies) - 1) |-> NewTask(anomalies[i + 1], test_mode)]

\* search_zeros line 118: the list comprehension over anomalies.iterrows()
TaskArgs(anomalies, test_mode) ==
    [i \in 1..Len(anomalies) |-> NewTask(anomalies[i], test_mode)]

IdleCruncher == [pc |-> "idle", test |-> FALSE, pool |-> 0, results |-> <<>>,
                 idx |-> 0, verified_zeros |-> <<>>, out |-> <<>>, err |-> FALSE]

\* subprocess.Popen of "python zeta_crunch.py --anomaly_file anomalies.csv [--test]"
LaunchCruncher(test) == [IdleCruncher EXCEPT !.pc = "load", !.test = test]

\* The process is over: its output stays in the pipe, its memory is gone.
Ended(c, how, lines) ==
    [IdleCruncher EXCEPT !.pc = how, !.test = c.test, !.out = c.out \o lines,
                         !.err = (how = "crashed")]

NumRunningPrefilterOnly == Cardinality({i \in 1..Len(tasks) : tasks[i].pc = "prefilter"})

\* A pool worker is inside verify_zero for task i.
Running(i) == tasks[i].pc \in {"prefilter", "findroot"}
NumRunning == Cardinality({i \in 1..Len(tasks) : Running(i)})

\* search_zeros lines 112-118: read the hand-off file, create the pool and
\* hand every row to pool.map.  Pool(processes=0) raises ValueError.
CrunchLoad ==
    /\ cruncher.pc = "load"
    /\ LET anomalies == anomalies_csv.rows
           n == Len(anomalies)
       IN IF n = 0
          THEN /\ cruncher' = Ended(cruncher, "crashed",
                                    <<"Loaded anomalies for verification.">>)
               /\ tasks' = <<>>
          ELSE /\ cruncher' = [cruncher EXCEPT !.pc = "map", !.pool = Min(POOL_MAX, n),
                                   !.out = Append(@, "Loaded anomalies for verification.")]
               /\ tasks' = TaskArgs(anomalies, cruncher.test)
    /\ obs' = [obs EXCEPT !.nTasks = Len(anomalies_csv.rows),
                          !.handed = @ + Len(anomalies_csv.rows)]
    /\ UNCHANGED <<should_exit, searchState, counters, pc, finder_out,
                   cruncher_out, files, finder>>

\* A pool worker takes a queued task: verify_zero lines 30-42.
TaskStart(i) ==
    /\ cruncher.pc = "map"
    /\ tasks[i].pc = "queued"
    /\ NumRunning < cruncher.pool
    /\ IF TestMatch(tasks[i].sigma, tasks[i].t, tasks[i].is_test)
       THEN /\ tasks' = [tasks EXCEPT ![i] =
                   [@ EXCEPT !.pc = "done", !.matched = TRUE, !.starts = @ + 1,
                             !.result = Tuple(tasks[i].sigma, tasks[i].t,
                                              FAKE_ZETA, TRUE)]]
            /\ obs' = [obs EXCEPT !.cexReturned = @ + 1]
       ELSE /\ tasks' = [tasks EXCEPT ![i] =
                   [@ EXCEPT !.pc = "prefilter", !.starts = @ + 1,
                             !.dps = LOW_PRECISION]]
            /\ UNCHANGED obs
    /\ UNCHANGED <<should_exit, searchState, counters, pc, finder_out,
                   cruncher_out, files, finder, cruncher>>

\* verify_zero lines 43-46: zeta_eval(s) is outside the try block, so an
\* exception it raises leaves verify_zero.
TaskPrefilter(i) ==
    /\ cruncher.pc = "map"
    /\ tasks[i].pc = "prefilter"
    /\ \/ /\ tasks' = [tasks EXCEPT ![i] =
                   [@ EXCEPT !.pc = "raised",
                             !.dps = zeta_eval_dps(DEFAULT_PRECISION),
                             !.pre_dps = zeta_eval_dps(DEFAULT_PRECISION)]]
          /\ obs' = [obs EXCEPT !.numericFailures = @ + 1]
       \/ \E m \in PreMags :
             IF PrefilterRejects(m)
             THEN /\ tasks' = [tasks EXCEPT ![i] =
                         [@ EXCEPT !.pc = "done", !.zeta_initial = m,
                                   !.dps = zeta_eval_dps(DEFAULT_PRECISION),
                                   !.pre_dps = zeta_eval_dps(DEFAULT_PRECISION),
                                   !.result = NoneResult]]
                  /\ obs' = [obs EXCEPT !.rejected = @ + 1]
             ELSE /\ tasks' = [tasks EXCEPT ![i] =
                         [@ EXCEPT !.pc = "findroot", !.zeta_initial = m,
                                   !.dps = zeta_eval_dps(DEFAULT_PRECISION),
                                   !.pre_dps = zeta_eval_dps(DEFAULT_PRECISION)]]
                  /\ UNCHANGED obs
    /\ UNCHANGED <<should_exit, searchState, counters, pc, finder_out,
                   cruncher_out, files, finder, cruncher>>

\* verify_zero lines 49-65: findroot, the confirmation and the classification;
\* any exception is caught and gives None.
TaskFindroot(i) ==
    /\ cruncher.pc = "map"
    /\ tasks[i].pc = "findroot"
    /\ \/ /\ tasks' = [tasks EXCEPT ![i] =
                          [@ EXCEPT !.pc = "done", !.refined = TRUE,
                                    !.dps = HIGH_PRECISION,
                                    !.result = NoneResult]]
          /\ obs' = [obs EXCEPT !.numericFailures = @ + 1]
       \/ \E sz \in SigmaZeroVals, zv \in ConfMags :
             LET r == Classify(sz, tasks[i].t, zv)
             IN /\ tasks' = [tasks EXCEPT ![i] =
                       [@ EXCEPT !.pc = "done", !.refined = TRUE,
                                 !.dps = zeta_eval_dps(DEFAULT_PRECISION),
                                 !.ref_dps = zeta_eval_dps(DEFAULT_PRECISION),
                                 !.zeta_val = zv, !.result = r]]
                /\ obs' = [obs EXCEPT
                       !.exact = IF r.some /\ sz = 0 THEN @ + 1 ELSE @,
                       !.cexReturned = IF r.some /\ r.is_counterexample
                                       THEN @ + 1 ELSE @]
    /\ UNCHANGED <<should_exit, searchState, counters, pc, finder_out,
                   cruncher_out, files, finder, cruncher>>

CountOf(results, P(_)) == Cardinality({k \in 1..Len(results) : P(results[k])})
IsNone(r) == ~r.some
IsOnLine(r) == r.some /\ ~r.is_counterexample
IsCounterexample(r) == r.some /\ r.is_counterexample

\* pool.map returns the results in the order of the rows once every task is
\* done; leaving the with block ends the pool and its workers.
MapReturn ==
    /\ cruncher.pc = "map"
    /\ \A i \in 1..Len(tasks) : tasks[i].pc = "done"
    /\ LET results == [i \in 1..Len(tasks) |-> tasks[i].result]
       IN /\ cruncher' = [cruncher EXCEPT !.pc = "process", !.idx = 1,
                                          !.results = results]
          /\ obs' = [obs EXCEPT !.noneResults = CountOf(results, IsNone),
                                !.onLineResults = CountOf(results, IsOnLine)]
    /\ tasks' = <<>>
    /\ UNCHANGED <<should_exit, searchState, counters, pc, finder_out,
                   cruncher_out, files, finder>>

\* pool.map re-raises a task's exception as soon as the task has failed;
\* Pool.__exit__ terminates the workers and the process dies with a traceback.
MapRaise ==
    /\ cruncher.pc = "map"
    /\ \E i \in 1..Len(tasks) : tasks[i].pc = "raised"
    /\ cruncher' = Ended(cruncher, "crashed", <<>>)
    /\ tasks' = <<>>
    /\ UNCHANGED <<should_exit, searchState, counters, pc, finder_out,
                   cruncher_out, files, finder, obs>>

\* log_result and log_verified_zero
StatusLog(c) == IF c THEN "counterexample_verified" ELSE "zero_on_line_verified"
StatusDb(c) == IF c THEN "counterexample" ELSE "on_line"
Entry(r, status) == [sigma |-> r.sigma, t |-> r.t, zeta |-> r.zeta, status |-> status]

\* search_zeros lines 121-134, one result of the loop.  io is what the two
\* writes do: both succeed, the log write raises, or the log is written and
\* the database insert raises; an exception ends the process.
ProcessResult ==
    /\ cruncher.pc = "process"
    /\ cruncher.idx <= Len(cruncher.results)
    /\ LET k == cruncher.idx
           r == cruncher.results[k]
       IN IF ~r.some
          THEN /\ cruncher' = [cruncher EXCEPT !.idx = k + 1]
               /\ obs' = [obs EXCEPT !.processed = @ + 1]
               /\ UNCHANGED <<verified_log, db_verified>>
          ELSE \E io \in {"ok", "log_raises", "db_raises"} :
               LET printed == <<"Potential zero detected!",
                                IF r.is_counterexample
                                THEN "Confirmed counterexample found!"
                                ELSE "Zero found on critical line">>
                   c == IF r.is_counterexample THEN 1 ELSE 0
               IN /\ verified_log' =
                        IF io = "log_raises" THEN verified_log
                        ELSE Append(verified_log, Entry(r, StatusLog(r.is_counterexample)))
                  /\ db_verified' =
                        IF io = "ok"
                        THEN Append(db_verified, Entry(r, StatusDb(r.is_counterexample)))
                        ELSE db_verified
                  /\ cruncher' =
                        IF io = "ok"
                        THEN [cruncher EXCEPT !.idx = k + 1, !.out = @ \o printed,
                                  !.verified_zeros = Append(@, <<r.sigma, r.t>>)]
                        ELSE Ended(cruncher, "crashed", printed)
                  /\ obs' = [obs EXCEPT
                        !.processed = @ + 1,
                        !.cexAlerted = @ + c,
                        !.cexLogged = IF io = "log_raises" THEN @ ELSE @ + c,
                        !.cexStored = IF io = "ok" THEN @ + c ELSE @,
                        !.cexWriteFailed = IF io = "ok" THEN @ ELSE @ + c]
    /\ UNCHANGED <<should_exit, searchState, counters, pc, finder_out,
                   cruncher_out, anomalies_csv, counterexamples_csv,
                   searched_regions, finder, tasks>>

\* search_zeros lines 136-139
CrunchFinish ==
    /\ cruncher.pc = "process"
    /\ cruncher.idx > Len(cruncher.results)
    /\ cruncher' = Ended(cruncher, "exited", <<"Verification complete.">>)
    /\ counterexamples_csv' = IF cruncher.verified_zeros # <<>>
                              THEN cruncher.verified_zeros
                              ELSE counterexamples_csv
    /\ obs' = [obs EXCEPT !.finished = TRUE]
    /\ UNCHANGED <<should_exit, searchState, counters, pc, finder_out,
                   cruncher_out, anomalies_csv, verified_log, db_verified,
                   searched_regions, finder, tasks>>

\* ----------------------------------------------------------- zeta_loop
NoFile == [exists |-> FALSE, rows |-> <<>>]

\* update_stats lines 59-64: every "Total anomalies detected:" line adds its
\* number to total_anomalies.
CountsAnomaliesLoose(line) ==
    line.text \in {"Total anomalies detected:", "anomalies detected!"}
CountsAnomalies(line) == line.text = "Total anomalies detected:"

RECURSIVE AnomaliesPrinted(_)
AnomaliesPrinted(lines) ==
    IF lines = <<>> THEN 0
    ELSE (IF CountsAnomalies(Head(lines)) THEN Head(lines).n ELSE 0)
         + AnomaliesPrinted(Tail(lines))

\* update_stats lines 65-66: one more counterexample when the text occurs in
\* the cruncher's output, however often.
CounterexampleIncrement(cruncher_output) ==
    IF \E i \in 1..Len(cruncher_output) :
          cruncher_output[i] = "Confirmed counterexample found!"
    THEN 1 ELSE 0

update_stats(finder_output, cruncher_output) ==
    /\ total_anomalies' = total_anomalies + AnomaliesPrinted(finder_output)
    /\ total_counterexamples' =
          total_counterexamples + CounterexampleIncrement(cruncher_output)

ReturnsAtOnce(child) == TRUE
ExitedOrExiting(child) == child.pc \in {"exited", "crashed"} \/ should_exit

\* run_command line 44: the loop ends when process.poll() is not None.
Exited(child) == child.pc \in {"exited", "crashed"}

\* run_command has returned: a child that is over is dropped with its pipes.
Reap(child, idle) == IF child.pc \in {"exited", "crashed"} THEN idle ELSE child

\* main line 138: while not should_exit
LoopCheck ==
    /\ pc = "while"
    /\ pc' = IF should_exit THEN "exited" ELSE "keys"
    /\ UNCHANGED <<should_exit, searchState, counters, finder_out, cruncher_out,
                   files, children, obs>>

Keys == {"f1", "f2", "f3", "f4", "f5", "f6"}

\* is_terminal_focused() and keyboard.is_pressed(): without the focus no key
\* is looked at.
KeyInputs == {[focused |-> TRUE, pressed |-> P] : P \in SUBSET Keys}
             \cup {[focused |-> FALSE, pressed |-> {}]}

\* The tunables the model explores: num_points and N_approximation grow for
\* ever in the code.
WithinKeySteps(np, n) ==
    /\ np >= NUM_POINTS_DEFAULT
    /\ (np - NUM_POINTS_DEFAULT) * N_STEP + (n - N_DEFAULT) * INCREMENT_SMALL
          <= MaxKeySteps * INCREMENT_SMALL * N_STEP

AtKeyPollOrScan == pc \in {"keys", "scan"}

\* main lines 139-163 run at the top of an iteration only.
AtKeyPoll == pc = "keys"

\* The tunables explored when the key handling is followed on its own:
\* num_points is bounded above only, N_approximation stays.
WithinKeyRange(np, n) ==
    /\ np <= NUM_POINTS_DEFAULT + MaxPointsUp * INCREMENT_DEFAULT
    /\ n = N_DEFAULT

CanDecreaseIfPositive(np, increment) == np > 0

\* main line 144: and num_points > point_increment
CanDecrease(np, increment) == np > increment

\* main lines 139-163: the keys are polled in this order, each handler seeing
\* what the ones before it did.  whole_range tells which values of the
\* tunables are explored: the whole range of num_points, or the steps above
\* the defaults.
HandleKeysWithin(whole_range) ==
    /\ AtKeyPoll
    /\ \E in \in KeyInputs :
          LET down(k) == in.focused /\ k \in in.pressed
              np1 == IF down("f1") THEN num_points + point_increment ELSE num_points
              np2 == IF down("f2") /\ CanDecrease(np1, point_increment)
                     THEN np1 - point_increment ELSE np1
              n2 == IF down("f6") THEN N_approximation + N_STEP ELSE N_approximation
          IN /\ IF whole_range THEN WithinKeyRange(np2, n2)
                                ELSE WithinKeySteps(np2, n2)
             /\ num_points' = np2
             /\ t_min' = IF down("f3") THEN T_MIN_DEFAULT ELSE t_min
             /\ t_max' = IF down("f3") THEN T_MAX_DEFAULT ELSE t_max
             /\ paused' = IF down("f4") THEN ~paused ELSE paused
             /\ point_increment' =
                   IF down("f5")
                   THEN (IF point_increment = INCREMENT_SMALL
                         THEN INCREMENT_DEFAULT ELSE INCREMENT_SMALL)
                   ELSE point_increment
             /\ N_approximation' = n2
    /\ pc' = IF pc = "keys" THEN "cycle" ELSE pc
    /\ UNCHANGED <<should_exit, counters, finder_out, cruncher_out, files,
                   children, obs>>

HandleKeys == HandleKeysWithin(FALSE)

StartCycleKeepsFile ==
    /\ pc = "cycle"
    /\ IF paused
       THEN /\ pc' = "sleep"
            /\ UNCHANGED <<finder, obs, finder_out, cruncher_out>>
       ELSE /\ pc' = "scan"
            /\ finder' = LaunchFinder(t_min, t_max, num_points, FALSE)
            /\ finder_out' = <<>>
            /\ cruncher_out' = <<>>
            /\ obs' = NewCycleObs(obs, total_anomalies, total_counterexamples)
    /\ UNCHANGED <<should_exit, searchState, counters, files, cruncher, tasks>>

StartCycleRemovesFirst ==
    /\ pc = "cycle"
    /\ anomalies_csv' = NoFile
    /\ IF paused
       THEN /\ pc' = "sleep"
            /\ UNCHANGED <<finder, obs, finder_out, cruncher_out>>
       ELSE /\ pc' = "scan"
            /\ finder' = LaunchFinder(t_min, t_max, num_points, FALSE)
            /\ finder_out' = <<>>
            /\ cruncher_out' = <<>>
            /\ obs' = NewCycleObs(obs, total_anomalies, total_counterexamples)
    /\ UNCHANGED <<should_exit, searchState, counters, verified_log,
                   db_verified, counterexamples_csv, searched_regions,
                   cruncher, tasks>>

\* main lines 165-171: if paused the body is skipped; else anomalies.csv is
\* removed and run_command starts the finder.
StartCycle ==
    /\ pc = "cycle"
    /\ IF paused
       THEN /\ pc' = "sleep"
            /\ UNCHANGED <<anomalies_csv, finder, obs, finder_out, cruncher_out>>
       ELSE /\ pc' = "scan"
            /\ anomalies_csv' = NoFile
            /\ finder' = LaunchFinder(t_min, t_max, num_points, FALSE)
            /\ finder_out' = <<>>
            /\ cruncher_out' = <<>>
            /\ obs' = NewCycleObs(obs, total_anomalies, total_counterexamples)
    /\ UNCHANGED <<should_exit, searchState, counters, verified_log,
                   db_verified, counterexamples_csv, searched_regions,
                   cruncher, tasks>>

\* run_command returns the finder's output once the finder has exited
\* (main lines 171-174).
ScanReturn ==
    /\ pc = "scan"
    /\ Exited(finder)
    /\ finder_out' = finder.out
    /\ finder' = Reap(finder, IdleFinder)
    /\ pc' = "afterscan"
    /\ UNCHANGED <<should_exit, searchState, counters, cruncher_out, files,
                   cruncher, tasks, obs>>

\* main lines 176-185: with a hand-off file the cruncher is started, without
\* one the statistics are updated at once.
AfterScan ==
    /\ pc = "afterscan"
    /\ IF anomalies_csv.exists
       THEN /\ cruncher' = LaunchCruncher(FALSE)
            /\ pc' = "verify"
            /\ obs' = [obs EXCEPT !.verifierRan = TRUE]
            /\ UNCHANGED counters
       ELSE /\ update_stats(finder_out, <<>>)
            /\ pc' = "sleep"
            /\ obs' = [obs EXCEPT !.statsDone = TRUE]
            /\ UNCHANGED cruncher
    /\ UNCHANGED <<should_exit, searchState, finder_out, cruncher_out, files,
                   finder, tasks>>

\* run_command returns the cruncher's output once it has exited, and
\* update_stats counts (main lines 179-183).
VerifyReturn ==
    /\ pc = "verify"
    /\ Exited(cruncher)
    /\ cruncher_out' = cruncher.out
    /\ cruncher' = Reap(cruncher, IdleCruncher)
    /\ update_stats(finder_out, cruncher.out)
    /\ pc' = "sleep"
    /\ obs' = [obs EXCEPT !.statsDone = TRUE]
    /\ UNCHANGED <<should_exit, searchState, finder_out, files, finder, tasks>>

\* main line 189
Sleep ==
    /\ pc = "sleep"
    /\ pc' = "while"
    /\ UNCHANGED <<should_exit, searchState, counters, finder_out, cruncher_out,
                   files, children, obs>>

\* Between the start of the finder and the update of the statistics.
MidCycle == pc \in {"scan", "afterscan", "verify"}

\* on_esc_pressed: the keyboard library calls it on its own thread, whatever
\* main() is doing.
on_esc_pressed ==
    /\ pc \notin {"exited", "cli"}
    /\ \E focused \in BOOLEAN :
          /\ should_exit' = (should_exit \/ focused)
          /\ obs' = IF focused /\ MidCycle
                    THEN [obs EXCEPT !.escInFlight = TRUE] ELSE obs
    /\ UNCHANGED <<searchState, counters, pc, finder_out, cruncher_out, files,
                   children>>

\* ------------------------------------------- the scripts run by hand
NoChildRuns == finder.pc \in {"idle", "exited"}
               /\ cruncher.pc \in {"idle", "exited", "crashed"}

\* zeta_ml_finder.py __main__ with its default ranges, with or without --test
CliFinder ==
    /\ pc = "cli"
    /\ NoChildRuns
    /\ \E test \in BOOLEAN :
          finder' = LaunchFinder(T_MIN_DEFAULT, T_MAX_DEFAULT, N_DEFAULT, test)
    /\ cruncher' = IdleCruncher
    /\ obs' = NewCycleObs(obs, total_anomalies, total_counterexamples)
    /\ UNCHANGED <<should_exit, searchState, counters, pc, finder_out,
                   cruncher_out, files, tasks>>

\* zeta_setup.py run_test: --t_min 100 --t_max 200 --num_points 100 --test
run_test ==
    /\ pc = "cli"
    /\ NoChildRuns
    /\ finder' = [LaunchFinder(0, 0, TEST_NUM_POINTS, TRUE)
                    EXCEPT !.sigma_max = TEST_SIGMA_MAX]
    /\ cruncher' = IdleCruncher
    /\ obs' = NewCycleObs(obs, total_anomalies, total_counterexamples)
    /\ UNCHANGED <<should_exit, searchState, counters, pc, finder_out,
                   cruncher_out, files, tasks>>

\* zeta_crunch.py __main__ on the finder's hand-off file, with or without --test
CliCrunch ==
    /\ pc = "cli"
    /\ finder.pc = "exited" /\ cruncher.pc = "idle"
    /\ anomalies_csv.exists
    /\ obs.handed + Len(anomalies_csv.rows) <= MaxTotalAnoms
    /\ \E test \in BOOLEAN : cruncher' = LaunchCruncher(test)
    /\ obs' = [obs EXCEPT !.verifierRan = TRUE]
    /\ UNCHANGED <<should_exit, searchState, counters, pc, finder_out,
                   cruncher_out, files, finder, tasks>>

\* ------------------------------------------------------ specifications
InitState ==
    /\ should_exit = FALSE
    /\ paused = FALSE
    /\ num_points = NUM_POINTS_DEFAULT
    /\ t_min = T_MIN_DEFAULT
    /\ t_max = T_MAX_DEFAULT
    /\ point_increment = INCREMENT_DEFAULT
    /\ N_approximation = N_DEFAULT
    /\ total_anomalies = 0
    /\ total_counterexamples = 0
    /\ finder_out = <<>>
    /\ cruncher_out = <<>>
    /\ verified_log = <<>>
    /\ db_verified = <<>>
    /\ counterexamples_csv = <<>>
    /\ searched_regions = {}
    /\ cruncher = IdleCruncher
    /\ tasks = <<>>
    /\ obs = NewCycleObs([escInFlight |-> FALSE, handed |-> 0], 0, 0)

InitCommon == InitState /\ finder = IdleFinder

\* zeta_loop.py starts; anomalies.csv may be there already, left by run_test.
Init ==
    /\ InitCommon
    /\ pc = "while"
    /\ anomalies_csv \in {NoFile, [exists |-> TRUE, rows |-> <<fake_anomaly>>]}

Child ==
    \/ FinderScan
    \/ FinderFilter
    \/ CrunchLoad
    \/ \E i \in 1..Len(tasks) : TaskStart(i)
    \/ \E i \in 1..Len(tasks) : TaskPrefilter(i)
    \/ \E i \in 1..Len(tasks) : TaskFindroot(i)
    \/ MapReturn
    \/ MapRaise
    \/ ProcessResult
    \/ CrunchFinish

Next ==
    \/ LoopCheck
    \/ HandleKeys
    \/ StartCycle
    \/ ScanReturn
    \/ AfterScan
    \/ VerifyReturn
    \/ Sleep
    \/ on_esc_pressed
    \/ Child

Spec == Init /\ [][Next]_vars

\* The finder and the cruncher started by hand (or by zeta_setup.py), where
\* --test can be given.
InitCli ==
    /\ InitCommon
    /\ pc = "cli"
    /\ anomalies_csv = NoFile

NextCli ==
    \/ CliFinder
    \/ run_test
    \/ CliCrunch
    \/ Child

SpecCli == InitCli /\ [][NextCli]_vars

\* ------------------------------------------- the scan, batch by batch
\* np.log10 of the t arguments that run_test gives, in thousandths.
Log10m(t) == CASE t = T_TEST_MIN -> 2000
               [] t = T_TEST_MAX -> 2301

\* np.logspace(start, stop, num): num exponents from start to stop at equal
\* distance (the t values are 10 to these exponents; the model keeps the
\* exponents, in thousandths).
LogSpace(start, stop, num) ==
    [k \in 1..num |-> IF num = 1 THEN start
                      ELSE start + ((stop - start) * (k - 1)) \div (num - 1)]

BatchDropsPartial(i, batch_size, n) ==
    IF i + batch_size <= n THEN (i + 1)..(i + batch_size) ELSE {}

\* zeta_scan_logarithmic line 36: the indices of t_vals[i:i + batch_size]
\* (counted from 1)
Batch(i, batch_size, n) == (i + 1)..Min(i + batch_size, n)

\* A sigma range bound (hundredths) as a row's sigma
SigmaValue(h) == (h - 50) * 100000000

\* The finder started by hand with every argument given; t_min and t_max are
\* in units of 1 here.
LaunchScan(smin, smax, tlo, thi, n, batch_size, test) ==
    [pc |-> "grid", test |-> test, sigma_min |-> smin, sigma_max |-> smax,
     t_min |-> tlo, t_max |-> thi, N |-> N_BATCH_DEFAULT,
     num_points |-> n, batch_size |-> batch_size,
     i |-> 0, t_vals |-> <<>>, idxs |-> <<>>, count |-> 0, rows |-> <<>>,
     out |-> <<Line("Scanning Zeta function space...", 0)>>]

\* zeta_scan_logarithmic lines 30-33: np.logspace raises ValueError for a
\* negative number of samples.
ScanGrid ==
    /\ finder.pc = "grid"
    /\ finder' = IF finder.num_points < 0
                 THEN [finder EXCEPT !.pc = "crashed"]
                 ELSE [finder EXCEPT !.pc = "loop",
                           !.t_vals = LogSpace(Log10m(finder.t_min),
                                               Log10m(finder.t_max),
                                               finder.num_points)]
    /\ UNCHANGED <<should_exit, searchState, counters, pc, finder_out,
                   cruncher_out, files, cruncher, tasks, obs>>

\* zeta_scan_logarithmic lines 35-42, one pass of the loop.  The result of
\* np.random.uniform(low, high) with high < low is undefined: it raises or it
\* draws between the two.  idxs is the observation of which grid indices the
\* batches covered.
ScanBatch ==
    /\ finder.pc = "loop"
    /\ finder.i < Len(finder.t_vals)
    /\ LET B == Batch(finder.i, finder.batch_size, Len(finder.t_vals))
           lo == Min(finder.sigma_min, finder.sigma_max)
           hi == finder.sigma_min + finder.sigma_max - lo
       IN \/ /\ finder.sigma_min > finder.sigma_max
             /\ finder' = [finder EXCEPT !.pc = "crashed"]
          \/ /\ B = {}
             /\ finder' = [finder EXCEPT !.i = Len(finder.t_vals)]
          \/ /\ B # {}
             /\ \E draw \in [B -> {SigmaValue(lo), SigmaValue(hi)}
                                  \X {THRESHOLD - 1, THRESHOLD}] :
                   finder' = [finder EXCEPT
                       !.rows = @ \o [k \in 1..Cardinality(B) |->
                                         [sigma |-> draw[finder.i + k][1],
                                          t |-> finder.t_vals[finder.i + k],
                                          z |-> draw[finder.i + k][2]]],
                       !.idxs = @ \o [k \in 1..Cardinality(B) |-> finder.i + k],
                       !.i = @ + finder.batch_size]
    /\ UNCHANGED <<should_exit, searchState, counters, pc, finder_out,
                   cruncher_out, files, cruncher, tasks, obs>>

\* zeta_scan_logarithmic lines 45-46 and __main__ line 105: the region is
\* logged, the rows are returned, find_anomalies is next.
ScanLogRegion ==
    /\ finder.pc = "loop"
    /\ finder.i >= Len(finder.t_vals)
    /\ searched_regions' = searched_regions \cup {Region(finder)}
    /\ finder' = [finder EXCEPT !.pc = "filter", !.count = Len(finder.rows),
                                !.out = Append(@, Line("Detecting anomalies...", 0))]
    /\ UNCHANGED <<should_exit, searchState, counters, pc, finder_out,
                   cruncher_out, anomalies_csv, verified_log, db_verified,
                   counterexamples_csv, cruncher, tasks, obs>>

\* python zeta_ml_finder.py with any sigma range, t range and sample count,
\* valid or not; batch_size is the parameter of zeta_scan_logarithmic.
InitScan ==
    /\ InitState
    /\ pc = "cli"
    /\ anomalies_csv = NoFile
    /\ finder \in {LaunchScan(smin, smax, tlo, thi, n, bs, test) :
                      smin \in {SIGMA_MIN_DEFAULT, TEST_SIGMA_MAX},
                      smax \in {SIGMA_MIN_DEFAULT, TEST_SIGMA_MAX},
                      tlo \in {T_TEST_MIN, T_TEST_MAX},
                      thi \in {T_TEST_MIN, T_TEST_MAX},
                      n \in (0 - 1)..MaxCount, bs \in 1..MaxBatch,
                      test \in BOOLEAN}

NextScan ==
    \/ ScanGrid
    \/ ScanBatch
    \/ ScanLogRegion
    \/ FinderFilter

SpecScan == InitScan /\ [][NextScan]_vars


\* -------------------------------------------- run_command and its pipes
\* run_command line 42: Popen with stdout=PIPE and stderr=PIPE.  The child
\* is any program that writes to_stdout lines to its stdout and to_stderr
\* lines to its stderr, in any order, and then exits; stdout and stderr are
\* what the two pipes hold, output is run_command's local.
Popen(to_stdout, to_stderr) ==
    [pc |-> "running", to_stdout |-> to_stdout, to_stderr |-> to_stderr,
     stdout |-> 0, stderr |-> 0, output |-> 0]

\* The child writes a line to its stdout; the write blocks while the pipe is
\* full.
ChildWriteStdout ==
    /\ finder.pc = "running"
    /\ finder.to_stdout > 0
    /\ finder.stdout < PipeCapacity
    /\ finder' = [finder EXCEPT !.to_stdout = @ - 1, !.stdout = @ + 1]
    /\ UNCHANGED <<should_exit, searchState, counters, pc, finder_out,
                   cruncher_out, files, cruncher, tasks, obs>>

\* The child writes a line to its stderr; the write blocks while the pipe is
\* full.
ChildWriteStderr ==
    /\ finder.pc = "running"
    /\ finder.to_stderr > 0
    /\ finder.stderr < PipeCapacity
    /\ finder' = [finder EXCEPT !.to_stderr = @ - 1, !.stderr = @ + 1]
    /\ UNCHANGED <<should_exit, searchState, counters, pc, finder_out,
                   cruncher_out, files, cruncher, tasks, obs>>

\* The child has written everything and exits.
ChildExit ==
    /\ finder.pc = "running"
    /\ finder.to_stdout = 0 /\ finder.to_stderr = 0
    /\ finder' = [finder EXCEPT !.pc = "exited"]
    /\ UNCHANGED <<should_exit, searchState, counters, pc, finder_out,
                   cruncher_out, files, cruncher, tasks, obs>>

\* run_command lines 44-49, one pass of the loop while the child lives:
\* readline takes one line from the stdout pipe, and waits while the pipe is
\* empty and the child has not closed it.  stderr is not read here.
RunCommandPoll ==
    /\ pc = "scan"
    /\ finder.pc = "running"
    /\ finder.stdout > 0
    /\ finder' = [finder EXCEPT !.stdout = @ - 1, !.output = @ + 1]
    /\ UNCHANGED <<should_exit, searchState, counters, pc, finder_out,
                   cruncher_out, files, cruncher, tasks, obs>>

\* run_command lines 50-52: the child is over, the rest of stdout and the
\* whole of stderr are read and returned (main line 171).
RunCommandReturn ==
    /\ pc = "scan"
    /\ finder.pc = "exited"
    /\ finder_out' = [k \in 1..(finder.output + finder.stdout) |-> Line("", k)]
    /\ finder' = [finder EXCEPT !.pc = "reaped", !.stdout = 0, !.stderr = 0,
                                !.output = @ + finder.stdout]
    /\ pc' = "afterscan"
    /\ UNCHANGED <<should_exit, searchState, counters, cruncher_out, files,
                   cruncher, tasks, obs>>

\* The loop has started a stage with some child.
InitPipe ==
    /\ InitState
    /\ pc = "scan"
    /\ anomalies_csv = NoFile
    /\ finder \in {Popen(o, e) : o \in 0..MaxOutput, e \in 0..MaxOutput}

NextPipe ==
    \/ ChildWriteStdout
    \/ ChildWriteStderr
    \/ ChildExit
    \/ RunCommandPoll
    \/ RunCommandReturn

\* The operating system schedules the child and the orchestrator's thread:
\* a step of either that stays possible is taken.
SpecPipe ==
    /\ InitPipe
    /\ [][NextPipe]_vars
    /\ WF_vars(ChildWriteStdout)
    /\ WF_vars(ChildWriteStderr)
    /\ WF_vars(ChildExit)
    /\ WF_vars(RunCommandPoll)
    /\ WF_vars(RunCommandReturn)


\* ------------------------------------------------ the pool, many rows
\* zeta_scan_logarithmic as in FinderScan, for a scan that returns up to
\* MaxPoolRows rows below the threshold (the other rows lie above it).
PoolScan ==
    /\ finder.pc = "scan"
    /\ \E k \in 0..Min(MaxPoolRows, finder.num_points) :
       \E row \in {r \in ScanRowVals(finder.t_min, finder.t_max) : BelowThreshold(r)} :
          finder' = [finder EXCEPT !.pc = "filter",
                                   !.rows = [j \in 1..k |-> row],
                                   !.count = finder.num_points,
                                   !.out = Append(@, Line("Detecting anomalies...", 0))]
    /\ searched_regions' = searched_regions \cup {Region(finder)}
    /\ UNCHANGED <<should_exit, searchState, counters, pc, finder_out,
                   cruncher_out, anomalies_csv, verified_log, db_verified,
                   counterexamples_csv, cruncher, tasks, obs>>

\* zeta_crunch.py __main__ on the hand-off file the finder left
PoolCrunch ==
    /\ pc = "cli"
    /\ finder.pc = "exited" /\ cruncher.pc = "idle"
    /\ anomalies_csv.exists
    /\ cruncher' = LaunchCruncher(FALSE)
    /\ obs' = [obs EXCEPT !.verifierRan = TRUE]
    /\ UNCHANGED <<should_exit, searchState, counters, pc, finder_out,
                   cruncher_out, files, finder, tasks>>

\* The anomalies of the run are flukes of the batch evaluator that the
\* pre-filter lets through: zeta is evaluated without error at each of them,
\* and findroot ends at a point where |zeta| is not below the tolerance
\* ("Debug: Not a zero", verify_zero lines 62-63).
NoZeroFound ==
    \A i \in 1..Len(tasks) :
        /\ tasks[i].pc # "raised"
        /\ tasks[i].pc = "done" => /\ tasks[i].refined
                                   /\ tasks[i].zeta_val = CONFIRM_TOL

InitPool ==
    /\ InitState
    /\ pc = "cli"
    /\ anomalies_csv = NoFile
    /\ finder = LaunchFinder(T_MIN_DEFAULT, T_MAX_DEFAULT, NUM_POINTS_DEFAULT, FALSE)

NextPool ==
    \/ PoolScan
    \/ FinderFilter
    \/ PoolCrunch
    \/ CrunchLoad
    \/ \E i \in 1..Len(tasks) : TaskStart(i)
    \/ \E i \in 1..Len(tasks) : TaskPrefilter(i) /\ NoZeroFound'
    \/ \E i \in 1..Len(tasks) : TaskFindroot(i) /\ NoZeroFound'
    \/ MapReturn
    \/ ProcessResult
    \/ CrunchFinish

\* The finder, the cruncher and the pool's workers are processes of the
\* operating system: a step that stays possible is taken.
SpecPool == InitPool /\ [][NextPool]_vars /\ WF_vars(NextPool)


\* ------------------------------------------- the key handling on its own
HandleKeysInRange == HandleKeysWithin(TRUE)

\* The loop of main with the whole range of num_points; a cycle that starts
\* a finder is not followed here, so the iterations followed are the paused
\* ones (F4) and the first steps of the others.
NextKeys ==
    \/ LoopCheck
    \/ HandleKeysInRange
    \/ StartCycle
    \/ Sleep

SpecKeys == Init /\ [][NextKeys]_vars

\* ------------------------------------------------------------ claims
DoneTasks == {i \in 1..Len(tasks) : tasks[i].pc = "done"}

\* The cycle is complete: its statistics are updated and the next iteration
\* has not begun.
CycleDone == pc = "sleep" /\ obs.statsDone

\* verify_zero line 55 was reached and its test passed.
ConfirmationPassed(tk) ==
    tk.refined /\ tk.zeta_val # 0 - 1 /\ tk.zeta_val < CONFIRM_TOL

ExactlyOneTag(r) ==
    Cardinality({tag \in {"RejectedNotZero", "ZeroOnCriticalLine", "CounterexampleOffLine"} :
                    \/ tag = "RejectedNotZero" /\ IsNone(r)
                    \/ tag = "ZeroOnCriticalLine" /\ IsOnLine(r)
                    \/ tag = "CounterexampleOffLine" /\ IsCounterexample(r)}) = 1

InWindow(tk) == /\ Abs(tk.sigma - FAKE_SIGMA) < FAKE_SIGMA_WINDOW
                /\ Abs(tk.t - FAKE_T) < FAKE_T_WINDOW

\* C1 as stated: every result of verify_zero has exactly one tag, and it is a
\* counterexample if and only if the confirmation passed and the refined sigma
\* is more than 1e-10 off 0.5, whatever the test-mode flag.
C1_Original ==
    \A i \in DoneTasks :
        /\ ExactlyOneTag(tasks[i].result)
        /\ IsCounterexample(tasks[i].result)
              <=> (ConfirmationPassed(tasks[i])
                   /\ Abs(tasks[i].result.sigma) > SIGMA_TOL)

\* C1 amended: every result of verify_zero has exactly one tag; it is a
\* counterexample if and only if either the confirmation passed and the refined
\* sigma is more than 1e-10 off 0.5, or test mode is on and the input lies in
\* the window of the synthetic point, in which case nothing was computed.
\* A confirmed zero is never dropped and every other result was confirmed.
C1_Classification ==
    \A i \in DoneTasks :
        LET tk == tasks[i]
            r == tk.result
        IN /\ ExactlyOneTag(r)
           /\ IsCounterexample(r)
                 <=> \/ ConfirmationPassed(tk) /\ Abs(r.sigma) > SIGMA_TOL
                     \/ tk.matched
           /\ tk.matched <=> (tk.is_test /\ InWindow(tk))
           /\ tk.matched => (~tk.refined /\ tk.zeta_initial = 0 - 1
                             /\ r.zeta = FAKE_ZETA)
           /\ ConfirmationPassed(tk) => (r.some /\ r.zeta = tk.zeta_val)
           /\ (r.some /\ ~tk.matched) => ConfirmationPassed(tk)

\* One batch in test mode holds both kinds of counterexample: the synthetic
\* point and a refined zero off the line.
C1_Witness ==
    \E i \in DoneTasks, j \in DoneTasks :
        /\ tasks[i].matched
        /\ tasks[j].is_test /\ ~tasks[j].matched
        /\ ConfirmationPassed(tasks[j])
        /\ tasks[j].result.sigma < 0
        /\ tasks[j].result.is_counterexample

\* C2: a task whose pre-filter magnitude is above 1e-5 returns None and never
\* reaches the root refinement; the refinement is only entered with a
\* magnitude of at most 1e-5.
C2_PrefilterRejects ==
    \A i \in 1..Len(tasks) :
        /\ tasks[i].zeta_initial > REJECT_BOUND
              => /\ tasks[i].pc = "done"
                 /\ tasks[i].result = NoneResult
                 /\ ~tasks[i].refined
        /\ (tasks[i].pc = "findroot" \/ tasks[i].refined)
              => /\ tasks[i].zeta_initial # 0 - 1
                 /\ tasks[i].zeta_initial <= REJECT_BOUND

\* One batch in test mode: a task rejected just above the bound and a task
\* refined from exactly the bound.
C2_Witness ==
    \E i \in DoneTasks, j \in DoneTasks :
        /\ tasks[i].zeta_initial = REJECT_BOUND + 1 /\ tasks[i].is_test
        /\ tasks[j].zeta_initial = REJECT_BOUND /\ tasks[j].refined

\* C3: when a cycle is complete, every counterexample a verifier task of the
\* cycle returned is alerted and counted, and is in the log and in the store
\* unless its own write failed; what happens to the other results of the
\* batch does not matter.
C3_CounterexampleNeverDropped ==
    CycleDone =>
        /\ obs.cexAlerted = obs.cexReturned
        /\ obs.cexStored + obs.cexWriteFailed = obs.cexReturned
        /\ obs.cexLogged >= obs.cexStored
        /\ obs.cexReturned > 0 => total_counterexamples > obs.cexBefore

\* The scenario of C4: every task of the batch was either rejected by the
\* pre-filter or converged to a zero with sigma = 0.5 exactly.
C4_Scenario ==
    /\ CycleDone
    /\ obs.verifierRan
    /\ obs.nTasks >= 1
    /\ obs.rejected + obs.exact = obs.nTasks

\* C4 as stated: k None results and n-k results on the line, and the
\* cumulative counters go up by n-k in all.
C4_Original ==
    C4_Scenario =>
        /\ obs.noneResults = obs.rejected
        /\ obs.onLineResults = obs.exact
        /\ (total_anomalies - obs.anomBefore)
              + (total_counterexamples - obs.cexBefore) = obs.exact

\* C4 amended: k None results and n-k results on the line; total_anomalies
\* goes up by n, the number of anomalies handed over, and
\* total_counterexamples stays.
C4_CountersByBatch ==
    C4_Scenario =>
        /\ obs.noneResults = obs.rejected
        /\ obs.onLineResults = obs.exact
        /\ total_anomalies - obs.anomBefore = obs.nTasks
        /\ total_counterexamples = obs.cexBefore

\* A batch of two: one rejected, one on the line.
C4_Witness ==
    C4_Scenario /\ obs.nTasks = 2 /\ obs.rejected = 1 /\ obs.exact = 1

\* C5: in a cycle whose scan hands over no anomaly the Verifier is not
\* started, and when the cycle is complete both counters are what they were.
C5_EmptyCycle ==
    obs.scanAnoms = 0 =>
        /\ pc # "verify"
        /\ ~obs.verifierRan
        /\ cruncher.pc = "idle"
        /\ tasks = <<>>
        /\ CycleDone => /\ total_anomalies = obs.anomBefore
                        /\ total_counterexamples = obs.cexBefore

\* An empty cycle is complete after an earlier cycle handed anomalies over.
C5_Witness ==
    CycleDone /\ obs.scanAnoms = 0 /\ total_anomalies > 0 /\ verified_log # <<>>

\* C6: in test mode a task on the synthetic point never runs the pre-filter or
\* the refinement and returns (0.55, 3.1e12, 1e-6, True); the point is the
\* last row of the hand-off file a test-mode finder wrote.
C6_SyntheticPoint ==
    /\ \A i \in 1..Len(tasks) :
          (tasks[i].is_test /\ tasks[i].sigma = FAKE_SIGMA /\ tasks[i].t = FAKE_T)
             => /\ tasks[i].pc \in {"queued", "done"}
                /\ tasks[i].zeta_initial = 0 - 1
                /\ ~tasks[i].refined
                /\ tasks[i].pc = "done"
                      => tasks[i].result = Tuple(FAKE_SIGMA, FAKE_T, FAKE_ZETA, TRUE)
    /\ (finder.pc = "exited" /\ finder.test)
          => /\ anomalies_csv.exists
             /\ anomalies_csv.rows[Len(anomalies_csv.rows)] = fake_anomaly
             /\ tasks # <<>>
                   => /\ tasks[Len(tasks)].sigma = FAKE_SIGMA
                      /\ tasks[Len(tasks)].t = FAKE_T

\* The synthetic point is done while the other task of the batch still runs.
C6_Witness ==
    /\ Len(tasks) = 2
    /\ finder.test
    /\ tasks[2].is_test /\ tasks[2].sigma = FAKE_SIGMA /\ tasks[2].pc = "done"
    /\ tasks[1].pc = "findroot"

\* C7: the finder runs only during the scan stage, where no cruncher and no
\* verifier task exists; the cruncher and its tasks run only during the verify
\* stage, after the finder is over.
C7_Sequential ==
    /\ finder.pc \in {"scan", "filter"} => pc = "scan"
    /\ pc = "scan" => (cruncher.pc = "idle" /\ tasks = <<>>)
    /\ (cruncher.pc \in {"load", "map", "process"} \/ tasks # <<>>)
          => (pc = "verify" /\ finder.pc = "idle")
    /\ pc \in {"sleep", "while", "keys", "cycle", "exited"}
          => (finder.pc = "idle" /\ cruncher.pc = "idle" /\ tasks = <<>>)

\* The scan of a later cycle runs after a cycle that verified something.
C7_Witness ==
    pc = "scan" /\ finder.pc = "filter" /\ verified_log # <<>>

\* C8 as stated: while a scan or a verification is in flight no SearchState
\* variable changes, should_exit included.
C8_Original ==
    [][MidCycle => UNCHANGED <<searchState, should_exit>>]_vars

\* C8 amended: while a scan or a verification is in flight, paused,
\* num_points, t_min, t_max, point_increment and N_approximation do not
\* change; should_exit can be set (never cleared) by the Esc callback, and
\* that step changes nothing else.
C8_ControlBetweenCycles ==
    [][MidCycle =>
          /\ UNCHANGED searchState
          /\ should_exit' # should_exit
                => (should_exit' /\ pc' = pc
                    /\ UNCHANGED <<counters, files, children>>)]_vars

\* A batch is in flight with a control event applied before it and Esc
\* pressed during it.
C8_Witness ==
    /\ pc = "verify" /\ tasks # <<>>
    /\ obs.escInFlight
    /\ point_increment = INCREMENT_SMALL

\* C9: once Esc is accepted while a cycle is in flight, no further cycle
\* starts, and when the loop has ended the statistics of that cycle are
\* updated and neither child nor task is left.
C9_ExitDrains ==
    obs.escInFlight =>
        /\ should_exit
        /\ ~obs.startedAfterEsc
        /\ pc = "exited" => /\ obs.statsDone
                            /\ finder.pc = "idle"
                            /\ cruncher.pc = "idle"
                            /\ tasks = <<>>

\* The loop has ended after Esc came during a cycle that verified and stored.
C9_Witness ==
    /\ pc = "exited" /\ obs.escInFlight
    /\ obs.verifierRan /\ db_verified # <<>>
    /\ total_anomalies > obs.anomBefore

\* C10: in an iteration with the pause flag set after the key handling, the
\* step from the pause check goes to the sleep and leaves the files, the
\* counters and the children as they are; nothing is in flight while paused,
\* and the loop goes on to the loop test and the key handling.
C10_PausedSkips ==
    [][/\ (pc = "cycle" /\ paused)
             => (pc' \in {"cycle", "sleep"} /\ UNCHANGED <<counters, files, children>>)
       /\ (pc = "sleep" /\ paused)
             => (pc' \in {"sleep", "while"} /\ UNCHANGED <<counters, files, children>>)
       /\ (pc = "while" /\ paused)
             => /\ pc' \in {"while", IF should_exit THEN "exited" ELSE "keys"}
                /\ UNCHANGED <<counters, files, children>>
       /\ paused' => ~MidCycle']_vars

\* Paused after a cycle that left its hand-off file.
C10_Witness ==
    /\ paused /\ pc = "sleep"
    /\ anomalies_csv.exists /\ obs.statsDone /\ obs.verifierRan

\* C11: while pool.map runs there is one task per row of the hand-off file,
\* in the order of the rows, and no task is started twice; when pool.map has
\* returned there is one result per row, the result loop handles each result
\* at most once, and every result that is not None adds at most one log line
\* and one database row; when the verifier has finished, every result was
\* handled exactly once and every result that is not None was written once.
C11_ExactlyOnce ==
    /\ cruncher.pc = "map"
          => /\ Len(tasks) = Len(anomalies_csv.rows)
             /\ Len(tasks) = obs.nTasks
             /\ \A i \in 1..Len(tasks) :
                   /\ tasks[i].sigma = anomalies_csv.rows[i].sigma
                   /\ tasks[i].t = anomalies_csv.rows[i].t
                   /\ tasks[i].starts = (IF tasks[i].pc = "queued" THEN 0 ELSE 1)
    /\ cruncher.pc = "process"
          => /\ Len(cruncher.results) = obs.nTasks
             /\ obs.processed = cruncher.idx - 1
             /\ obs.processed <= obs.nTasks
             /\ Len(verified_log) - obs.logBefore
                   = CountOf(SubSeq(cruncher.results, 1, obs.processed), IsOnLine)
                     + CountOf(SubSeq(cruncher.results, 1, obs.processed), IsCounterexample)
             /\ Len(db_verified) - obs.dbBefore = Len(verified_log) - obs.logBefore
    /\ obs.finished
          => /\ obs.processed = obs.nTasks
             /\ Len(verified_log) - obs.logBefore = obs.nTasks - obs.noneResults
             /\ Len(db_verified) - obs.dbBefore = obs.nTasks - obs.noneResults

\* A batch of two whose results are both zeros: both are written and the
\* verifier has finished.
C11_Witness ==
    /\ obs.finished /\ obs.nTasks = 2 /\ obs.noneResults = 0
    /\ Len(verified_log) - obs.logBefore = 2

\* How often a row occurs in a sequence of rows.
Occurrences(rows, r) == Cardinality({k \in 1..Len(rows) : rows[k] = r})

\* out holds exactly the rows of batch that lie strictly below the threshold,
\* each as often as the batch holds it.
ExactlyBelow(batch, out) ==
    /\ \A k \in 1..Len(out) :
          /\ out[k].z < THRESHOLD
          /\ Occurrences(out, out[k]) = Occurrences(batch, out[k])
    /\ \A j \in 1..Len(batch) :
          batch[j].z < THRESHOLD
             => Occurrences(out, batch[j]) = Occurrences(batch, batch[j])

\* The step in which find_anomalies runs.
FilterStep == finder.pc = "filter" /\ finder'.pc = "exited"

\* What find_anomalies returned in that step: the hand-off file it wrote, or
\* nothing.
Returned == IF obs'.scanAnoms > 0 THEN anomalies_csv'.rows ELSE <<>>

\* C12 as stated: whatever the test-mode setting, find_anomalies returns
\* exactly the scanned rows with a magnitude strictly below the threshold,
\* and no more rows than were scanned.
C12_Original ==
    [][FilterStep =>
          /\ Len(Returned) = obs'.scanAnoms
          /\ ExactlyBelow(finder.rows, Returned)
          /\ Len(Returned) <= finder.count]_vars

\* C12 amended: without test mode find_anomalies returns exactly the scanned
\* rows with a magnitude strictly below the threshold, and no more rows than
\* were scanned; in test mode it returns those rows followed by the synthetic
\* point, one row more.
C12_FilterExact ==
    [][FilterStep =>
          /\ Len(Returned) = obs'.scanAnoms
          /\ IF finder.test
             THEN /\ Len(Returned) >= 1
                  /\ Returned[Len(Returned)] = fake_anomaly
                  /\ ExactlyBelow(finder.rows, SubSeq(Returned, 1, Len(Returned) - 1))
                  /\ Len(Returned) <= finder.count + 1
             ELSE /\ ExactlyBelow(finder.rows, Returned)
                  /\ Len(Returned) <= finder.count]_vars

\* A test-mode finder has returned one scanned row and the synthetic point.
C12_Witness ==
    /\ finder.pc = "exited" /\ finder.test
    /\ obs.scanAnoms = 2
    /\ Len(anomalies_csv.rows) = 2
    /\ anomalies_csv.rows[1] # fake_anomaly
    /\ anomalies_csv.rows[2] = fake_anomaly

\* C13: for a sample count of at least 1 and any batch size, the batches
\* cover the grid indices 1, 2, ... in order, each once, while the loop runs;
\* the scan returns exactly num_points rows, row k with the k-th value of the
\* t grid, and with t_min <= t_max the t values do not decrease.
C13_ScanCount ==
    finder.num_points >= 1 =>
        /\ finder.pc = "loop"
              => /\ finder.idxs = [k \in 1..Min(finder.i, finder.num_points) |-> k]
                 /\ Len(finder.rows) = Len(finder.idxs)
        /\ finder.pc = "filter"
              => /\ Len(finder.rows) = finder.num_points
                 /\ finder.count = finder.num_points
                 /\ finder.idxs = [k \in 1..finder.num_points |-> k]
                 /\ \A k \in 1..finder.num_points :
                       finder.rows[k].t = finder.t_vals[k]
                 /\ finder.t_min <= finder.t_max
                       => \A k \in 1..(finder.num_points - 1) :
                             finder.rows[k].t <= finder.rows[k + 1].t

\* Three points in batches of two (the last batch is partial) over a rising
\* t range have been returned.
C13_Witness ==
    /\ finder.pc = "filter"
    /\ finder.num_points = 3 /\ finder.batch_size = 2
    /\ Len(finder.rows) = 3
    /\ finder.rows[1].t < finder.rows[2].t /\ finder.rows[2].t < finder.rows[3].t

\* sigma_min > sigma_max, t_min >= t_max or a sample count below 1
InvalidConfiguration(f) ==
    \/ f.sigma_min > f.sigma_max
    \/ f.t_min >= f.t_max
    \/ f.num_points <= 0

\* C14: a finder started with an invalid configuration evaluates no batch,
\* inserts no searched-region record and writes no hand-off file: it is at
\* its start or it has failed.
C14_FailFast ==
    InvalidConfiguration(finder) =>
        /\ finder.pc \in {"grid", "crashed"}
        /\ finder.rows = <<>>
        /\ finder.idxs = <<>>
        /\ searched_regions = {}
        /\ anomalies_csv = NoFile

\* C15: when a cycle is complete whose verifier ran to its end, the
\* counterexample counter has gone up by the number of counterexamples the
\* verifier tasks of the cycle returned, and the anomaly counter by the
\* number of anomalies handed to the verifier.
C15_CountersMatchResults ==
    (CycleDone /\ obs.verifierRan /\ obs.finished) =>
        /\ total_counterexamples - obs.cexBefore = obs.cexReturned
        /\ total_anomalies - obs.anomBefore = obs.nTasks

\* C16: when a cycle is complete whose verifier ran to its end and recorded
\* results of its own, the result set of the run (counterexamples.csv, written
\* from verified_zeros) still holds the results the earlier cycles recorded:
\* every (sigma, t) logged before the cycle is in it, and it has as many rows
\* as results were logged in the run.
C16_EarlierResultsKept ==
    (CycleDone /\ obs.finished /\ Len(verified_log) > obs.logBefore) =>
        /\ \A k \in 1..obs.logBefore :
              \E j \in 1..Len(counterexamples_csv) :
                 counterexamples_csv[j] = <<verified_log[k].sigma, verified_log[k].t>>
        /\ Len(counterexamples_csv) >= Len(verified_log)

\* C17: when a cycle is complete in which a verifier task had a numeric
\* failure (zeta_eval or findroot raised), the verifier still ran to its end:
\* the results of all tasks were collected and every result that is not None
\* was written to the log.
C17_FailureRecoveredLocally ==
    (CycleDone /\ obs.numericFailures > 0) =>
        /\ obs.finished
        /\ obs.noneResults # 0 - 1
        /\ Len(verified_log) - obs.logBefore = obs.nTasks - obs.noneResults

\* C18: for every verifier task, the precision set when the pre-filter
\* evaluated zeta is the low one (20) and the precision set when the refined
\* point was confirmed is the high one (50).
C18_LowThenHigh ==
    \A i \in 1..Len(tasks) :
        /\ tasks[i].pre_dps # 0 => tasks[i].pre_dps = LOW_PRECISION
        /\ tasks[i].ref_dps # 0 => /\ tasks[i].ref_dps = HIGH_PRECISION
                                   /\ tasks[i].pre_dps = LOW_PRECISION

\* C19: while the scan of a cycle runs, it runs with the sample count, the
\* t range and the series length N that the search state holds, that is with
\* what the control events before the cycle made of them.
C19_ScanUsesSearchState ==
    (pc = "scan" /\ finder.pc \in {"scan", "filter"}) =>
        /\ finder.num_points = num_points
        /\ finder.t_min = t_min /\ finder.t_max = t_max
        /\ finder.N = N_approximation

\* C20: a stage the loop has started returns control to it: run_command
\* returns for every child that writes its output to stdout and stderr and
\* then exits.
C20_RunCommandReturns == (pc = "scan") ~> (pc = "afterscan")

\* The pool while pool.map runs: one task per row of the hand-off file, a
\* pool of min(6, n) workers, which is at least one, and never more tasks
\* inside verify_zero than workers.
PoolBounded ==
    /\ anomalies_csv.exists => Len(anomalies_csv.rows) >= 1
    /\ cruncher.pc # "crashed"
    /\ cruncher.pc = "map"
          => /\ Len(tasks) = Len(anomalies_csv.rows)
             /\ cruncher.pool = Min(POOL_MAX, Len(tasks))
             /\ cruncher.pool >= 1
             /\ Cardinality({i \in 1..Len(tasks) : Running(i)})
                   <= Min(POOL_MAX, Len(tasks))

\* C21: the verifier runs one task per anomaly on a pool of min(6, n)
\* workers and never more than min(6, n) tasks run at a time; whenever it is
\* started on a hand-off file the pool has at least one worker, and pool.map
\* comes back with one result per row, so every task has run.
C21_PoolSize ==
    /\ []PoolBounded
    /\ (cruncher.pc = "map")
          ~> (cruncher.pc = "process"
              /\ Len(cruncher.results) = Len(anomalies_csv.rows))

\* Seven rows: six tasks are inside verify_zero and the seventh waits.
C21_Witness ==
    /\ cruncher.pc = "map"
    /\ Len(tasks) = POOL_MAX + 1
    /\ cruncher.pool = POOL_MAX
    /\ Cardinality({i \in 1..Len(tasks) : Running(i)}) = POOL_MAX
    /\ \E i \in 1..Len(tasks) : tasks[i].pc = "queued"

\* C22: whatever keys are held in whatever iterations, num_points stays
\* above 0 and point_increment is 100 or 1000; and num_points goes down only
\* by the current increment and only from a value above it.
C22_PointsPositive ==
    /\ [](/\ num_points > 0
          /\ point_increment \in {INCREMENT_SMALL, INCREMENT_DEFAULT})
    /\ [][num_points' < num_points
             => /\ num_points > point_increment
                /\ num_points' = num_points - point_increment]_vars

\* num_points has been taken down to its floor of 100 in steps of 1000 and
\* then of 100, and the increment is back at 1000: F2 does nothing now.
C22_Witness ==
    /\ pc = "keys"
    /\ num_points = INCREMENT_SMALL
    /\ point_increment = INCREMENT_DEFAULT

====
